---- MODULE Spec2Model ----
(***************************************************************************)
(* A model of relnotify's ReleaseNotifier (src/src/notifier.rs): the       *)
(* mutex-guarded in-memory release cache, its disk file, the freshness     *)
(* test of fetch_all_releases, the selection of the latest release and the *)
(* public operations built on them.                                        *)
(*                                                                         *)
(* Option<T> values are modelled as sequences: <<>> is None, <<x>> is      *)
(* Some(x).  Strings that the code inspects character by character are     *)
(* sequences of one-character strings.                                     *)
(***************************************************************************)
EXTENDS Integers, Sequences, FiniteSets, TLC

\* ---------------------------------------------------------------- bounds
\* The clock (Utc::now().timestamp_millis()) runs over 0..MaxTime.
MaxTime == 2
\* A check_interval shorter than the clock's range, so that snapshots expire.
ShortInterval == 1
\* The width in bits of the model's i64 and u64 (64 in the program).
IntBits == 4
\* The number of concurrent callers of one notifier.
NumCallers == 2
\* The longest release list of the selection specification.
MaxLen == 3
\* Publish timestamps of the selection specification run over 1..MaxStamp.
MaxStamp == 2
\* The longest release list of the version specification.
VerLen == 2

\* ------------------------------------------------------- program constants
MAX_GITHUB_OWNER_LENGTH == 39
MAX_GITHUB_REPO_LENGTH == 100

\* ------------------------------------------------------------- integers
\* `x as i64` for a u64 x: the same bits read as two's complement.
AsI64(x) == IF x >= 2 ^ (IntBits - 1) THEN x - 2 ^ IntBits ELSE x

\* --------------------------------------------------------------- options
NoneOpt == << >>
Some(x) == << x >>
IsSome(o) == o # << >>
\* A variant of the order in which None is the greatest.
OptLeqNoneLast(a, b) == \/ b = << >>
                        \/ (a # << >> /\ a[1] <= b[1])

\* Ord for Option<T>: None is less than every Some, Some(a) <= Some(b) iff a <= b.
OptLeq(a, b) == \/ a = << >>
                \/ (b # << >> /\ a[1] <= b[1])

\* -------------------------------------------------------------- releases
\* types.rs Release; name, body and html_url take no part in any decision.
Rel(tag, pre, draft, pub) ==
    [tag_name |-> tag, prerelease |-> pre, draft |-> draft, published_at |-> pub]

\* The release lists the remote source answers with in the notifier
\* specifications: the empty list, a single old stable release, and the list of
\* the integration tests (tests/integration_tests.rs mock_releases_json) with its
\* tags shortened to v2, v2b, v1 and v3d.  A tag is a sequence of characters.
FeedEmpty == << >>
FeedOld == << Rel(<<"v", "1">>, FALSE, FALSE, Some(1)) >>
FeedTest == << Rel(<<"v", "2">>, FALSE, FALSE, Some(3)),
               Rel(<<"v", "2", "b">>, TRUE, FALSE, Some(4)),
               Rel(<<"v", "1">>, FALSE, FALSE, Some(1)),
               Rel(<<"v", "3", "d">>, FALSE, TRUE, Some(5)) >>
Feeds == {FeedEmpty, FeedOld, FeedTest}

\* The failures of fetch_from_github: request.send() fails, a non-success
\* status, response.json() fails.
FetchErrors == {"HttpError", "ApiError", "JsonError"}

\* ------------------------------------------------------------- selection
\* Iterator::max_by_key over Option<DateTime>: the last of the greatest elements.
RECURSIVE MaxByKeyFrom(_, _, _)
MaxByKeyFrom(s, i, best) ==
    IF i > Len(s) THEN best
    ELSE MaxByKeyFrom(s, i + 1,
                      IF OptLeq(best.published_at, s[i].published_at)
                      THEN s[i] ELSE best)

MaxByKey(s) == IF s = << >> THEN NoneOpt ELSE Some(MaxByKeyFrom(s, 2, s[1]))

NotDraft(r) == ~r.draft
NotPrerelease(r) == ~r.prerelease

\* A variant of the filter of get_latest_prerelease that keeps the drafts.
IsPrerelease(r) == r.prerelease

IsPrereleaseNotDraft(r) == ~r.draft /\ r.prerelease

\* A variant of get_latest_release that forgets to drop the drafts.
LatestReleaseKeepsDrafts(releases, include_prerelease) ==
    MaxByKey(IF include_prerelease THEN releases
             ELSE SelectSeq(releases, NotPrerelease))

\* The selection of get_latest_release, applied to the fetched list.
LatestRelease(releases, include_prerelease) ==
    MaxByKey(IF include_prerelease
             THEN SelectSeq(releases, NotDraft)
             ELSE SelectSeq(SelectSeq(releases, NotDraft), NotPrerelease))

\* A variant of get_latest_prerelease that falls back to the latest release of
\* any kind when there is no prerelease.
LatestPrereleaseOrAny(releases) ==
    IF SelectSeq(releases, IsPrereleaseNotDraft) = << >>
    THEN MaxByKey(SelectSeq(releases, NotDraft))
    ELSE MaxByKey(SelectSeq(releases, IsPrereleaseNotDraft))

\* The selection of get_latest_prerelease.
LatestPrerelease(releases) == MaxByKey(SelectSeq(releases, IsPrereleaseNotDraft))

\* ------------------------------------------------------ version resolver
\* A variant of the normalization that strips every leading v
\* (trim_start_matches in place of strip_prefix).
RECURSIVE StripEveryV(_)
StripEveryV(s) == IF Len(s) > 0 /\ s[1] = "v" THEN StripEveryV(Tail(s)) ELSE s

\* str::strip_prefix('v') followed by unwrap_or(the string itself).
StripPrefixV(s) == IF Len(s) > 0 /\ s[1] = "v" THEN Tail(s) ELSE s

\* The index of the first release whose normalized tag equals the normalized
\* version, 0 when there is none (the position iter().find() stops at).
RECURSIVE FindIndexFrom(_, _, _)
FindIndexFrom(version, releases, i) ==
    IF i > Len(releases) THEN 0
    ELSE IF StripPrefixV(releases[i].tag_name) = StripPrefixV(version) THEN i
    ELSE FindIndexFrom(version, releases, i + 1)

find_release_by_version(version, releases) ==
    LET i == FindIndexFrom(version, releases, 1)
    IN  IF i = 0 THEN NoneOpt ELSE Some(releases[i])

\* A variant that takes a version it does not find for an old one.
is_version_older_if_unknown(current_version, latest, releases) ==
    LET current == find_release_by_version(current_version, releases)
    IN  IF current = NoneOpt THEN TRUE
        ELSE /\ IsSome(current[1].published_at)
             /\ IsSome(latest.published_at)
             /\ current[1].published_at[1] < latest.published_at[1]

\* A variant that compares the publish dates with <= in place of <.
is_version_older_or_same(current_version, latest, releases) ==
    LET current == find_release_by_version(current_version, releases)
    IN  IF current = NoneOpt THEN FALSE
        ELSE /\ IsSome(current[1].published_at)
             /\ IsSome(latest.published_at)
             /\ current[1].published_at[1] <= latest.published_at[1]

is_version_older(current_version, latest, releases) ==
    LET current == find_release_by_version(current_version, releases)
    IN  IF current = NoneOpt THEN FALSE
        ELSE /\ IsSome(current[1].published_at)
             /\ IsSome(latest.published_at)
             /\ current[1].published_at[1] < latest.published_at[1]

\* ---------------------------------------------------------- configuration
AsciiAlphanumeric ==
    {"a", "b", "c", "d", "e", "f", "g", "h", "i", "j", "k", "l", "m",
     "n", "o", "p", "q", "r", "s", "t", "u", "v", "w", "x", "y", "z",
     "A", "B", "C", "D", "E", "F", "G", "H", "I", "J", "K", "L", "M",
     "N", "O", "P", "Q", "R", "S", "T", "U", "V", "W", "X", "Y", "Z",
     "0", "1", "2", "3", "4", "5", "6", "7", "8", "9"}

\* The position of the first occurrence of character ch in s, 0 when there is none.
RECURSIVE IndexOfFrom(_, _, _)
IndexOfFrom(s, ch, i) ==
    IF i > Len(s) THEN 0
    ELSE IF s[i] = ch THEN i
    ELSE IndexOfFrom(s, ch, i + 1)

Contains(s, ch) == IndexOfFrom(s, ch, 1) # 0

is_valid_owner(owner) ==
    /\ owner # << >>
    /\ Len(owner) <= MAX_GITHUB_OWNER_LENGTH
    /\ owner[1] # "-"
    /\ owner[Len(owner)] # "-"
    /\ \A i \in 1 .. Len(owner) : owner[i] \in AsciiAlphanumeric \/ owner[i] = "-"

is_valid_repo_name(name) ==
    /\ name # << >>
    /\ Len(name) <= MAX_GITHUB_REPO_LENGTH
    /\ \A i \in 1 .. Len(name) :
          name[i] \in AsciiAlphanumeric \/ name[i] \in {"-", "_", "."}

is_valid_repo_format(repo) ==
    LET k == IndexOfFrom(repo, "/", 1)
    IN  IF k = 0 THEN FALSE
        ELSE LET owner == SubSeq(repo, 1, k - 1)
                 name == SubSeq(repo, k + 1, Len(repo))
             IN  IF Contains(name, "/") THEN FALSE
                 ELSE is_valid_owner(owner) /\ is_valid_repo_name(name)

\* Url::parse(&config.base_url).is_ok(): the url crate decides; of the two base
\* URLs of the model it accepts the first.
GoodUrl == "https://api.github.com"
BadUrl == "not a url"
UrlParses(base_url) == base_url = GoodUrl

\* A path is the sequence of its components.  Path::parent() drops the last
\* component (None for the empty path); the directories that exist are fixed.
CacheFile == << "cache.json" >>
OrphanFile == << "nodir", "cache.json" >>
ExistingDirs == {<< "tmp" >>}
ParentMissing(path) ==
    /\ path # << >>
    /\ SubSeq(path, 1, Len(path) - 1) # << >>
    /\ SubSeq(path, 1, Len(path) - 1) \notin ExistingDirs

GoodRepo == << "t", "/", "r" >>
BadRepo == << "t", "r" >>

\* check_interval: caching disabled, a short interval, and the smallest u64
\* whose top bit is set.
Intervals == {0, ShortInterval, 2 ^ (IntBits - 1)}

Config(repo, base_url, check_interval, cache_file_path) ==
    [repo |-> repo, base_url |-> base_url, check_interval |-> check_interval,
     cache_file_path |-> cache_file_path]

\* The configurations new() is given: the valid ones, with and without a cache
\* file, and one for each configuration error.
Configs ==
    {Config(GoodRepo, GoodUrl, i, p) : i \in Intervals, p \in {NoneOpt, Some(CacheFile)}}
    \cup {Config(BadRepo, GoodUrl, ShortInterval, NoneOpt),
          Config(GoodRepo, BadUrl, ShortInterval, NoneOpt),
          Config(GoodRepo, GoodUrl, ShortInterval, Some(OrphanFile))}

\* A variant of the validation that looks at the base URL first.
ValidateUrlFirst(cfg) ==
    IF ~UrlParses(cfg.base_url)
    THEN [kind |-> "Err", err |-> "InvalidBaseUrl", value |-> << cfg.base_url >>]
    ELSE IF ~is_valid_repo_format(cfg.repo)
    THEN [kind |-> "Err", err |-> "InvalidRepo", value |-> cfg.repo]
    ELSE IF cfg.cache_file_path # NoneOpt /\ ParentMissing(cfg.cache_file_path[1])
    THEN [kind |-> "Err", err |-> "InvalidCacheFilePath",
          value |-> cfg.cache_file_path[1]]
    ELSE [kind |-> "Ok", err |-> "", value |-> << >>]

\* The validation of ReleaseNotifier::new, in the order of the code.  An error
\* carries the value it rejects: the repo (its characters), the base URL (a
\* sequence holding the string) or the cache file path (its components).
Validate(cfg) ==
    IF ~is_valid_repo_format(cfg.repo)
    THEN [kind |-> "Err", err |-> "InvalidRepo", value |-> cfg.repo]
    ELSE IF ~UrlParses(cfg.base_url)
    THEN [kind |-> "Err", err |-> "InvalidBaseUrl", value |-> << cfg.base_url >>]
    ELSE IF cfg.cache_file_path # NoneOpt /\ ParentMissing(cfg.cache_file_path[1])
    THEN [kind |-> "Err", err |-> "InvalidCacheFilePath",
          value |-> cfg.cache_file_path[1]]
    ELSE [kind |-> "Ok", err |-> "", value |-> << >>]

\* ------------------------------------------------------- cache and its file
EmptyCache == [releases |-> << >>, last_fetch_time |-> NoneOpt]

\* The cache file: absent, holding bytes that do not decode as CacheData, or
\* holding the JSON text of a CacheData (whose last_fetch_time is an i64, not an
\* Option).
AbsentFile == [kind |-> "absent", releases |-> << >>, last_fetch_time |-> 0]
GarbageFile == [kind |-> "garbage", releases |-> << >>, last_fetch_time |-> 0]
\* A variant of the encoding that keeps the first release only.
EncodeFirstOnly(d) ==
    [kind |-> "json",
     releases |-> IF d.releases = << >> THEN << >> ELSE << d.releases[1] >>,
     last_fetch_time |-> d.last_fetch_time]

\* serde_json::to_string(&CacheData)
Encode(d) ==
    [kind |-> "json", releases |-> d.releases, last_fetch_time |-> d.last_fetch_time]

\* A variant of load_cache_from_disk that drops the file's timestamp.
load_cache_without_time(file, readable) ==
    IF file.kind # "json" \/ ~readable THEN NoneOpt
    ELSE Some([releases |-> file.releases, last_fetch_time |-> NoneOpt])

\* load_cache_from_disk: read_to_string fails on an absent or unreadable file,
\* serde_json::from_str on text that is no CacheData; both give None.
load_cache_from_disk(file, readable) ==
    IF file.kind = "absent" \/ ~readable THEN NoneOpt
    ELSE IF file.kind # "json" THEN NoneOpt
    ELSE Some([releases |-> file.releases,
               last_fetch_time |-> Some(file.last_fetch_time)])

\* The first half of save_cache_to_disk: the CacheData copied under the lock.
CacheDataOf(c, t) ==
    [releases |-> c.releases,
     last_fetch_time |-> IF c.last_fetch_time = NoneOpt THEN t
                         ELSE c.last_fetch_time[1]]

\* The cache a successfully constructed notifier starts with.
InitialCache(cfg, file, readable) ==
    IF cfg.cache_file_path # NoneOpt
    THEN LET loaded == load_cache_from_disk(file, readable)
         IN  IF loaded = NoneOpt THEN EmptyCache ELSE loaded[1]
    ELSE EmptyCache

\* A variant of the freshness test that serves an empty list too.
CacheIsValidWhenEmpty(cfg, c, t) ==
    /\ cfg.check_interval > 0
    /\ c.last_fetch_time # NoneOpt
    /\ t - c.last_fetch_time[1] < AsI64(cfg.check_interval)

\* The freshness test of fetch_all_releases, evaluated under the lock.
CacheIsValid(cfg, c, t) ==
    /\ cfg.check_interval > 0
    /\ c.last_fetch_time # NoneOpt
    /\ t - c.last_fetch_time[1] < AsI64(cfg.check_interval)
    /\ c.releases # << >>

\* ------------------------------------------------------------------ state
Callers == 1 .. NumCallers

VARIABLES
    config,     \* the ReleaseNotifierConfig given to new()
    created,    \* the result of new(): Ok, or the configuration error
    cache,      \* the Cache behind the mutex: releases, last_fetch_time
    lock,       \* the caller holding the mutex, 0 when it is free
    disk,       \* the cache file
    now,        \* the clock
    pc,         \* each caller's position in its public operation
    op,         \* each caller's public operation and its arguments
    stage,      \* check_version: 1 in get_latest_*, 2 in its own fetch_all_releases
    fetched,    \* fetch_all_releases' local `releases` (the answer of the source)
    latest,     \* check_version's local `latest`
    data,       \* save_cache_to_disk's local `data`
    ret,        \* what the caller's public operation returns
    got,        \* what the caller's last fetch_all_releases returned
    inv,        \* history: the caller's last fetch_all_releases or clear_cache
    prev,       \* history: the last event completed on the notifier
    boot        \* history: how new() found the cache file

vars == << config, created, cache, lock, disk, now, pc, op, stage, fetched,
           latest, data, ret, got, inv, prev, boot >>

\* The public operations and their arguments.
GetLatestRelease(include_prerelease) ==
    [name |-> "get_latest_release", include_prerelease |-> include_prerelease,
     current_version |-> << >>, is_prerelease |-> FALSE]
GetLatestPrerelease ==
    [name |-> "get_latest_prerelease", include_prerelease |-> FALSE,
     current_version |-> << >>, is_prerelease |-> FALSE]
CheckVersion(current_version, is_prerelease) ==
    [name |-> "check_version", include_prerelease |-> FALSE,
     current_version |-> current_version, is_prerelease |-> is_prerelease]
ClearCache ==
    [name |-> "clear_cache", include_prerelease |-> FALSE,
     current_version |-> << >>, is_prerelease |-> FALSE]

\* The calls made in the sequential specification; check_version is asked about
\* a released version given without its v prefix.
Ops == {GetLatestRelease(FALSE), GetLatestPrerelease,
        CheckVersion(<< "1" >>, FALSE), ClearCache}

\* What a public operation returns: Ok with an Option<Release> (and
\* update_available for check_version), or Err.
Pending == [kind |-> "Pending", release |-> NoneOpt, update_available |-> FALSE,
            err |-> ""]
OkRet(release, update_available) ==
    [kind |-> "Ok", release |-> release, update_available |-> update_available,
     err |-> ""]
ErrRet(e) == [kind |-> "Err", release |-> NoneOpt, update_available |-> FALSE,
              err |-> e]

\* What fetch_all_releases returns.
NoGot == [kind |-> "None", list |-> << >>, err |-> ""]
OkGot(list) == [kind |-> "Ok", list |-> list, err |-> ""]
ErrGot(e) == [kind |-> "Err", list |-> << >>, err |-> e]

NoRelease == Rel(<< >>, FALSE, FALSE, NoneOpt)
NoData == [releases |-> << >>, last_fetch_time |-> 0]

\* History records.  prev: the kind of the last event completed on the notifier
\* ("new", "hit", "fetched", "failed", "cleared"); snap is the snapshot a
\* "fetched" left and the one a "cleared" destroyed; saved tells whether the
\* "fetched" wrote the cache file.  For "new", from/hadPath/saved/snap describe
\* the notifier that was dropped.  A "hit" changes no state: it keeps the record,
\* with the kind it had in was.
FirstPrev == [kind |-> "new", was |-> "", from |-> "", hadPath |-> FALSE,
              saved |-> FALSE, snap |-> EmptyCache]
\* inv: the remote fetches of the invocation, how it ended, what its disk
\* operation did, the time of its commit, and whether its commit is the last
\* write of the in-memory snapshot.
NoInv == [fetches |-> 0, outcome |-> "none", io |-> "none", commit_time |-> 0,
          last |-> FALSE]

\* The invocation records after caller c wrote the snapshot with record r: no
\* other caller's commit is the last write any more.
LastWrite(c, r) ==
    [d \in Callers |-> IF d = c THEN r ELSE [inv[d] EXCEPT !.last = FALSE]]

LoadOutcome(cfg, file, readable) ==
    IF cfg.cache_file_path = NoneOpt THEN "nopath"
    ELSE IF file.kind = "absent" THEN "absent"
    ELSE IF ~readable THEN "unreadable"
    ELSE IF file.kind # "json" THEN "undecodable"
    ELSE "loaded"

\* The files a notifier may find when the program starts: none, one that does
\* not decode, or one an earlier run wrote at time 0.
InitFiles == {AbsentFile, GarbageFile}
             \cup {Encode([releases |-> f, last_fetch_time |-> 0]) : f \in Feeds}

\* ----------------------------------------------------------- construction
\* A variant of new() that reports a cache file it cannot load as an error.
NewStateStrict(cfg, file, readable) ==
    LET failed == /\ cfg.cache_file_path # NoneOpt
                  /\ load_cache_from_disk(file, readable) = NoneOpt
    IN  [config |-> cfg,
         created |-> IF Validate(cfg).kind = "Ok" /\ failed
                     THEN [kind |-> "Err", err |-> "IoError", value |-> << >>]
                     ELSE Validate(cfg),
         cache |-> IF Validate(cfg).kind = "Ok" THEN InitialCache(cfg, file, readable)
                   ELSE EmptyCache,
         boot |-> IF Validate(cfg).kind = "Ok" THEN LoadOutcome(cfg, file, readable)
                  ELSE "unread"]

\* The state ReleaseNotifier::new(cfg) makes, as a record of the variables it
\* decides: on a configuration error there is no notifier and no cache, and
\* the cache file has not been read.
NewState(cfg, file, readable) ==
    [config |-> cfg,
     created |-> Validate(cfg),
     cache |-> IF Validate(cfg).kind = "Ok" THEN InitialCache(cfg, file, readable)
               ELSE EmptyCache,
     boot |-> IF Validate(cfg).kind = "Ok" THEN LoadOutcome(cfg, file, readable)
              ELSE "unread"]

Idle ==
    [lock |-> 0,
     pc |-> [c \in Callers |-> "idle"],
     op |-> [c \in Callers |-> ClearCache],
     stage |-> [c \in Callers |-> 1],
     fetched |-> [c \in Callers |-> << >>],
     latest |-> [c \in Callers |-> NoRelease],
     data |-> [c \in Callers |-> NoData],
     ret |-> [c \in Callers |-> Pending],
     got |-> [c \in Callers |-> NoGot],
     inv |-> [c \in Callers |-> NoInv]]

\* The program starts: new(cfg) finds the cache file `file`.
Starts(cfg, file, readable) ==
    /\ config = NewState(cfg, file, readable).config
    /\ created = NewState(cfg, file, readable).created
    /\ cache = NewState(cfg, file, readable).cache
    /\ boot = NewState(cfg, file, readable).boot
    /\ disk = file
    /\ now = 0
    /\ lock = Idle.lock
    /\ pc = Idle.pc
    /\ op = Idle.op
    /\ stage = Idle.stage
    /\ fetched = Idle.fetched
    /\ latest = Idle.latest
    /\ data = Idle.data
    /\ ret = Idle.ret
    /\ got = Idle.got
    /\ inv = Idle.inv
    /\ prev = FirstPrev

Init ==
    \E cfg \in Configs, file \in InitFiles, readable \in BOOLEAN :
        Starts(cfg, file, readable)

\* The program drops its notifier, which no caller is using, and constructs
\* another one: ReleaseNotifier::new(cfg).
New(cfg, readable) ==
    /\ \A c \in Callers : pc[c] = "idle"
    /\ config' = NewState(cfg, disk, readable).config
    /\ created' = NewState(cfg, disk, readable).created
    /\ cache' = NewState(cfg, disk, readable).cache
    /\ boot' = NewState(cfg, disk, readable).boot
    /\ prev' = IF created.kind = "Ok"
               THEN [kind |-> "new", was |-> "",
                     from |-> IF prev.kind = "fetched" THEN "fetched" ELSE "",
                     hadPath |-> config.cache_file_path # NoneOpt,
                     saved |-> prev.kind = "fetched" /\ prev.saved,
                     snap |-> IF prev.kind = "fetched" THEN prev.snap ELSE EmptyCache]
               ELSE FirstPrev
    /\ UNCHANGED << lock, disk, now, pc, op, stage, fetched, latest, data, ret,
                    got, inv >>

\* Time passes.
Tick ==
    /\ now < MaxTime
    /\ now' = now + 1
    /\ UNCHANGED << config, created, cache, lock, disk, pc, op, stage, fetched,
                    latest, data, ret, got, inv, prev, boot >>

\* ------------------------------------------------------ public operations
\* A caller starts a public operation on the notifier.
Call(c, o) ==
    /\ created.kind = "Ok"
    /\ pc[c] = "idle"
    /\ op' = [op EXCEPT ![c] = o]
    /\ pc' = [pc EXCEPT ![c] = IF o.name = "clear_cache" THEN "clear" ELSE "check"]
    /\ UNCHANGED << config, created, cache, lock, disk, now, stage, fetched,
                    latest, data, ret, got, inv, prev, boot >>

\* The caller has its result and forgets the operation's locals.
Return(c) ==
    /\ pc[c] = "done"
    /\ pc' = [pc EXCEPT ![c] = "idle"]
    /\ op' = [op EXCEPT ![c] = Idle.op[c]]
    /\ stage' = [stage EXCEPT ![c] = Idle.stage[c]]
    /\ fetched' = [fetched EXCEPT ![c] = Idle.fetched[c]]
    /\ latest' = [latest EXCEPT ![c] = Idle.latest[c]]
    /\ ret' = [ret EXCEPT ![c] = Idle.ret[c]]
    /\ got' = [got EXCEPT ![c] = Idle.got[c]]
    /\ inv' = [inv EXCEPT ![c] = Idle.inv[c]]
    /\ UNCHANGED << config, created, cache, lock, disk, now, data, prev, boot >>

\* A variant of check_version without the early return: with no latest release
\* it goes on to the version comparison.
AfterFetchAllNoEarlyReturn(c, list) ==
    LET o == op[c]
        pick == IF o.is_prerelease THEN LatestPrerelease(list)
                ELSE LatestRelease(list, FALSE)
    IN  IF o.name = "get_latest_release"
        THEN [pc |-> "done", stage |-> 1, latest |-> latest[c],
              ret |-> OkRet(LatestRelease(list, o.include_prerelease), FALSE)]
        ELSE IF o.name = "get_latest_prerelease"
        THEN [pc |-> "done", stage |-> 1, latest |-> latest[c],
              ret |-> OkRet(LatestPrerelease(list), FALSE)]
        ELSE IF stage[c] = 1
        THEN [pc |-> "check", stage |-> 2,
              latest |-> IF pick = NoneOpt THEN NoRelease ELSE pick[1],
              ret |-> ret[c]]
        ELSE [pc |-> "done", stage |-> 2, latest |-> latest[c],
              ret |-> OkRet(IF latest[c] = NoRelease THEN NoneOpt ELSE Some(latest[c]),
                            is_version_older(o.current_version, latest[c], list))]

\* What the public operation of caller c does with the list its
\* fetch_all_releases returned: the caller's next position, stage, `latest`
\* and return value.
AfterFetchAll(c, list) ==
    LET o == op[c]
        pick == IF o.is_prerelease THEN LatestPrerelease(list)
                ELSE LatestRelease(list, FALSE)
    IN  IF o.name = "get_latest_release"
        THEN [pc |-> "done", stage |-> 1, latest |-> latest[c],
              ret |-> OkRet(LatestRelease(list, o.include_prerelease), FALSE)]
        ELSE IF o.name = "get_latest_prerelease"
        THEN [pc |-> "done", stage |-> 1, latest |-> latest[c],
              ret |-> OkRet(LatestPrerelease(list), FALSE)]
        ELSE IF stage[c] = 1
        THEN IF pick = NoneOpt
             THEN [pc |-> "done", stage |-> 1, latest |-> latest[c],
                   ret |-> OkRet(NoneOpt, FALSE)]
             ELSE [pc |-> "check", stage |-> 2, latest |-> pick[1], ret |-> ret[c]]
        ELSE [pc |-> "done", stage |-> 2, latest |-> latest[c],
              ret |-> OkRet(Some(latest[c]),
                            is_version_older(o.current_version, latest[c], list))]

\* fetch_all_releases of caller c returns Ok(list) and its public operation
\* goes on.
Resume(c, list) ==
    /\ got' = [got EXCEPT ![c] = OkGot(list)]
    /\ pc' = [pc EXCEPT ![c] = AfterFetchAll(c, list).pc]
    /\ stage' = [stage EXCEPT ![c] = AfterFetchAll(c, list).stage]
    /\ latest' = [latest EXCEPT ![c] = AfterFetchAll(c, list).latest]
    /\ ret' = [ret EXCEPT ![c] = AfterFetchAll(c, list).ret]

\* A variant of the cache check whose lock guard lives on after a miss, into
\* the remote fetch.
FetchAllCheckKeepsLock(c) ==
    /\ pc[c] = "check"
    /\ config.check_interval > 0 => lock = 0
    /\ IF CacheIsValid(config, cache, now)
       THEN /\ Resume(c, cache.releases)
            /\ inv' = [inv EXCEPT ![c] = [NoInv EXCEPT !.outcome = "hit"]]
            /\ prev' = [prev EXCEPT !.kind = "hit",
                                     !.was = IF prev.kind = "hit" THEN @ ELSE prev.kind]
            /\ lock' = lock
       ELSE /\ pc' = [pc EXCEPT ![c] = "fetch"]
            /\ inv' = [inv EXCEPT ![c] = [NoInv EXCEPT !.outcome = "fetching"]]
            /\ lock' = IF config.check_interval > 0 THEN c ELSE lock
            /\ UNCHANGED << stage, latest, ret, got, prev >>
    /\ UNCHANGED << config, created, cache, disk, now, op, fetched, data, boot >>

\* fetch_all_releases, lines 159-169: with caching enabled, take the lock and
\* answer from the cache when it is valid; otherwise go on to the source.
FetchAllCheck(c) ==
    /\ pc[c] = "check"
    /\ config.check_interval > 0 => lock = 0
    /\ IF CacheIsValid(config, cache, now)
       THEN /\ Resume(c, cache.releases)
            /\ inv' = [inv EXCEPT ![c] = [NoInv EXCEPT !.outcome = "hit"]]
            /\ prev' = [prev EXCEPT !.kind = "hit",
                                     !.was = IF prev.kind = "hit" THEN @ ELSE prev.kind]
       ELSE /\ pc' = [pc EXCEPT ![c] = "fetch"]
            /\ inv' = [inv EXCEPT ![c] = [NoInv EXCEPT !.outcome = "fetching"]]
            /\ UNCHANGED << stage, latest, ret, got, prev >>
    /\ UNCHANGED << config, created, cache, lock, disk, now, op, fetched, data,
                    boot >>

\* fetch_from_github answers with a release list.
FetchOk(c, list) ==
    /\ pc[c] = "fetch"
    /\ fetched' = [fetched EXCEPT ![c] = list]
    /\ pc' = [pc EXCEPT ![c] = "commit"]
    /\ inv' = [inv EXCEPT ![c].fetches = @ + 1]
    /\ UNCHANGED << config, created, cache, lock, disk, now, op, stage, latest,
                    data, ret, got, prev, boot >>

\* A variant of the failure path that drops the snapshot.
FetchErrClears(c, e) ==
    /\ pc[c] = "fetch"
    /\ pc' = [pc EXCEPT ![c] = "done"]
    /\ ret' = [ret EXCEPT ![c] = ErrRet(e)]
    /\ got' = [got EXCEPT ![c] = ErrGot(e)]
    /\ inv' = [inv EXCEPT ![c].fetches = @ + 1, ![c].outcome = "failed"]
    /\ prev' = [FirstPrev EXCEPT !.kind = "failed"]
    /\ cache' = EmptyCache
    /\ UNCHANGED << config, created, lock, disk, now, op, stage, fetched,
                    latest, data, boot >>

\* fetch_from_github fails; the `?` operators hand the error to the caller of
\* the public operation.
FetchErr(c, e) ==
    /\ pc[c] = "fetch"
    /\ pc' = [pc EXCEPT ![c] = "done"]
    /\ ret' = [ret EXCEPT ![c] = ErrRet(e)]
    /\ got' = [got EXCEPT ![c] = ErrGot(e)]
    /\ inv' = [inv EXCEPT ![c].fetches = @ + 1, ![c].outcome = "failed"]
    /\ prev' = [FirstPrev EXCEPT !.kind = "failed"]
    /\ UNCHANGED << config, created, cache, lock, disk, now, op, stage, fetched,
                    latest, data, boot >>

\* A variant of the commit that keeps the published releases only.
CommittedWithoutDrafts(list, t) ==
    [releases |-> SelectSeq(list, NotDraft), last_fetch_time |-> Some(t)]

\* The snapshot a successful fetch leaves in memory.
Committed(list, t) == [releases |-> list, last_fetch_time |-> Some(t)]

\* A variant of the commit that leaves the snapshot alone while caching is
\* disabled.
CommitUnlessDisabled(c) ==
    /\ pc[c] = "commit"
    /\ lock = 0
    /\ cache' = IF config.check_interval = 0 THEN cache
                ELSE Committed(fetched[c], now)
    /\ inv' = LastWrite(c, [inv[c] EXCEPT !.commit_time = now,
                                          !.outcome = "fetched", !.last = TRUE])
    /\ IF config.cache_file_path # NoneOpt
       THEN /\ pc' = [pc EXCEPT ![c] = "save"]
            /\ UNCHANGED << stage, latest, ret, got, prev >>
       ELSE /\ Resume(c, fetched[c])
            /\ prev' = [FirstPrev EXCEPT !.kind = "fetched",
                                         !.snap = Committed(fetched[c], now)]
    /\ UNCHANGED << config, created, lock, disk, now, op, fetched, data, boot >>

\* A variant of the commit whose guard outlives the block of lines 173-177: the
\* lock is still held when save_cache_to_disk asks for it.
CommitKeepsLock(c) ==
    /\ pc[c] = "commit"
    /\ lock = 0
    /\ cache' = Committed(fetched[c], now)
    /\ inv' = LastWrite(c, [inv[c] EXCEPT !.commit_time = now,
                                          !.outcome = "fetched", !.last = TRUE])
    /\ IF config.cache_file_path # NoneOpt
       THEN /\ pc' = [pc EXCEPT ![c] = "save"]
            /\ lock' = c
            /\ UNCHANGED << stage, latest, ret, got, prev >>
       ELSE /\ Resume(c, fetched[c])
            /\ lock' = lock
            /\ prev' = [FirstPrev EXCEPT !.kind = "fetched",
                                         !.snap = Committed(fetched[c], now)]
    /\ UNCHANGED << config, created, disk, now, op, fetched, data, boot >>

\* A variant of the commit that checks the snapshot again and keeps one that
\* another caller made valid in the meantime.
CommitUnlessValid(c) ==
    /\ pc[c] = "commit"
    /\ lock = 0
    /\ cache' = IF CacheIsValid(config, cache, now) THEN cache
                ELSE Committed(fetched[c], now)
    /\ inv' = LastWrite(c, [inv[c] EXCEPT !.commit_time = now,
                                          !.outcome = "fetched", !.last = TRUE])
    /\ IF config.cache_file_path # NoneOpt
       THEN /\ pc' = [pc EXCEPT ![c] = "save"]
            /\ UNCHANGED << stage, latest, ret, got, prev >>
       ELSE /\ Resume(c, fetched[c])
            /\ prev' = [FirstPrev EXCEPT !.kind = "fetched",
                                         !.snap = Committed(fetched[c], now)]
    /\ UNCHANGED << config, created, lock, disk, now, op, fetched, data, boot >>

\* fetch_all_releases, lines 173-177: take the lock and replace the snapshot.
\* Without a cache file the function returns here.
Commit(c) ==
    /\ pc[c] = "commit"
    /\ lock = 0
    /\ cache' = Committed(fetched[c], now)
    /\ inv' = LastWrite(c, [inv[c] EXCEPT !.commit_time = now,
                                          !.outcome = "fetched", !.last = TRUE])
    /\ IF config.cache_file_path # NoneOpt
       THEN /\ pc' = [pc EXCEPT ![c] = "save"]
            /\ UNCHANGED << stage, latest, ret, got, prev >>
       ELSE /\ Resume(c, fetched[c])
            /\ prev' = [FirstPrev EXCEPT !.kind = "fetched",
                                         !.snap = Committed(fetched[c], now)]
    /\ UNCHANGED << config, created, lock, disk, now, op, fetched, data, boot >>

\* A variant of save_cache_to_disk that writes the list its caller fetched in
\* place of the snapshot it finds.
SaveLockOwnList(c) ==
    /\ pc[c] = "save"
    /\ lock = 0
    /\ lock' = c
    /\ data' = [data EXCEPT ![c] = CacheDataOf(Committed(fetched[c], inv[c].commit_time), now)]
    /\ pc' = [pc EXCEPT ![c] = "write"]
    /\ UNCHANGED << config, created, cache, disk, now, op, stage, fetched, latest,
                    ret, got, inv, prev, boot >>

\* save_cache_to_disk, lines 231-236: take the lock and copy the snapshot.
SaveLock(c) ==
    /\ pc[c] = "save"
    /\ lock = 0
    /\ lock' = c
    /\ data' = [data EXCEPT ![c] = CacheDataOf(cache, now)]
    /\ pc' = [pc EXCEPT ![c] = "write"]
    /\ UNCHANGED << config, created, cache, disk, now, op, stage, fetched, latest,
                    ret, got, inv, prev, boot >>

\* The file fs::write leaves: the new text, or after a failure the old file or a
\* truncated one.
Written(file, d, ok) == IF ok THEN {Encode(d)} ELSE {file, GarbageFile}

\* A variant that hands a failed save to the caller (`?` in place of `let _ =`).
SaveWriteStrict(c, ok) ==
    /\ pc[c] = "write"
    /\ lock = c
    /\ disk' \in Written(disk, data[c], ok)
    /\ lock' = 0
    /\ data' = [data EXCEPT ![c] = NoData]
    /\ inv' = [inv EXCEPT ![c].io = IF ok THEN "ok" ELSE "failed"]
    /\ prev' = [FirstPrev EXCEPT !.kind = "fetched", !.saved = ok,
                                 !.snap = Committed(fetched[c], inv[c].commit_time)]
    /\ IF ok THEN Resume(c, fetched[c])
       ELSE /\ pc' = [pc EXCEPT ![c] = "done"]
            /\ ret' = [ret EXCEPT ![c] = ErrRet("IoError")]
            /\ got' = [got EXCEPT ![c] = ErrGot("IoError")]
            /\ UNCHANGED << stage, latest >>
    /\ UNCHANGED << config, created, cache, now, op, fetched, boot >>

\* save_cache_to_disk, lines 237-239, and the return of fetch_all_releases: the
\* file is written with the lock held, the lock is dropped, the result of the
\* save is discarded and the fetched list is returned.
SaveWrite(c, ok) ==
    /\ pc[c] = "write"
    /\ lock = c
    /\ disk' \in Written(disk, data[c], ok)
    /\ lock' = 0
    /\ data' = [data EXCEPT ![c] = NoData]
    /\ inv' = [inv EXCEPT ![c].io = IF ok THEN "ok" ELSE "failed"]
    /\ prev' = [FirstPrev EXCEPT !.kind = "fetched", !.saved = ok,
                                 !.snap = Committed(fetched[c], inv[c].commit_time)]
    /\ Resume(c, fetched[c])
    /\ UNCHANGED << config, created, cache, now, op, fetched, boot >>

\* A variant of clear_cache that forgets the in-memory snapshot.
ClearLockFileOnly(c) ==
    /\ pc[c] = "clear"
    /\ lock = 0
    /\ lock' = c
    /\ pc' = [pc EXCEPT ![c] = "remove"]
    /\ inv' = LastWrite(c, [NoInv EXCEPT !.outcome = "clearing"])
    /\ prev' = [FirstPrev EXCEPT !.kind = "cleared", !.snap = cache]
    /\ UNCHANGED << config, created, cache, disk, now, op, stage, fetched, latest,
                    data, ret, got, boot >>

\* clear_cache, lines 146-148: take the lock and empty the snapshot.
ClearLock(c) ==
    /\ pc[c] = "clear"
    /\ lock = 0
    /\ lock' = c
    /\ cache' = EmptyCache
    /\ pc' = [pc EXCEPT ![c] = "remove"]
    /\ inv' = LastWrite(c, [NoInv EXCEPT !.outcome = "clearing"])
    /\ prev' = [FirstPrev EXCEPT !.kind = "cleared", !.snap = cache]
    /\ UNCHANGED << config, created, disk, now, op, stage, fetched, latest, data,
                    ret, got, boot >>

\* A variant that empties the file where it should remove it.
RemovedTruncates(file, ok) ==
    IF ok /\ file.kind # "absent" THEN GarbageFile ELSE file

\* The file fs::remove_file leaves: it fails when there is no file, and may
\* fail when there is one.
Removed(file, ok) == IF ok /\ file.kind # "absent" THEN AbsentFile ELSE file
\* What became of the removal: "ok", "absent" (there was no file) or "failed".
Removal(file, ok) == IF file.kind = "absent" THEN "absent"
                     ELSE IF ok THEN "ok" ELSE "failed"

\* clear_cache, lines 151-154: remove the configured file with the lock held,
\* discard the result, drop the lock and return.
ClearRemove(c, ok) ==
    /\ pc[c] = "remove"
    /\ lock = c
    /\ IF config.cache_file_path # NoneOpt
       THEN /\ disk' = Removed(disk, ok)
            /\ inv' = [inv EXCEPT ![c].outcome = "cleared",
                                  ![c].io = Removal(disk, ok)]
       ELSE /\ disk' = disk
            /\ inv' = [inv EXCEPT ![c].outcome = "cleared"]
    /\ lock' = 0
    /\ pc' = [pc EXCEPT ![c] = "done"]
    /\ ret' = [ret EXCEPT ![c] = OkRet(NoneOpt, FALSE)]
    /\ UNCHANGED << config, created, cache, now, op, stage, fetched, latest, data,
                    got, prev, boot >>

\* ---------------------------------------------------------- specifications
\* The steps of caller c, whose calls are drawn from ops.
CallerStep(c, ops) ==
    \/ \E o \in ops : Call(c, o)
    \/ FetchAllCheck(c)
    \/ \E list \in Feeds : FetchOk(c, list)
    \/ \E e \in FetchErrors : FetchErr(c, e)
    \/ Commit(c)
    \/ SaveLock(c)
    \/ \E ok \in BOOLEAN : SaveWrite(c, ok)
    \/ ClearLock(c)
    \/ \E ok \in BOOLEAN : ClearRemove(c, ok)
    \/ Return(c)

Restart == \E cfg \in Configs, readable \in BOOLEAN : New(cfg, readable)

\* One caller uses the notifier: the public operations run one after another.
Next ==
    \/ CallerStep(1, Ops)
    \/ Restart
    \/ Tick

Spec == Init /\ [][Next]_vars

\* The selection specification: one call of get_latest_release or
\* get_latest_prerelease on a notifier without a cache, to which the source
\* answers with any list of at most MaxLen releases.
SelStamps == {NoneOpt} \cup {Some(t) : t \in 1 .. MaxStamp}
SelReleases == {Rel(<< "v", "1" >>, p, d, t) :
                   p \in BOOLEAN, d \in BOOLEAN, t \in SelStamps}
SelLists == UNION {[1 .. n -> SelReleases] : n \in 0 .. MaxLen}
SelOps == {GetLatestRelease(FALSE), GetLatestRelease(TRUE), GetLatestPrerelease}

SelInit ==
    /\ Init
    /\ config = Config(GoodRepo, GoodUrl, ShortInterval, NoneOpt)
    /\ disk = AbsentFile

SelNext ==
    \/ \E o \in SelOps : Call(1, o)
    \/ FetchAllCheck(1)
    \/ pc[1] = "fetch" /\ \E list \in SelLists : FetchOk(1, list)
    \/ Commit(1)

SelSpec == SelInit /\ [][SelNext]_vars

\* The version specification: one call of a selection operation or of
\* check_version on a notifier without a cache file, to which the source
\* answers with any list of at most VerLen releases.  The tags differ in their
\* leading v only; a release is published earlier (1), later (2) or has no
\* publish timestamp.
VerTags == {<< "1" >>, << "v", "1" >>}
VerStamps == {NoneOpt, Some(1), Some(2)}
VerReleases ==
    {Rel(tag, p, d, t) : tag \in VerTags, p \in BOOLEAN, d \in BOOLEAN,
                         t \in VerStamps}
    \cup {Rel(<< "V", "1" >>, FALSE, FALSE, Some(1))}
VerLists == UNION {[1 .. n -> VerReleases] : n \in 0 .. VerLen}
\* The current versions check_version is asked about.
VerVersions == {<< "1" >>, << "v", "1" >>, << "V", "1" >>, << "v", "v", "1" >>}
VerOps == SelOps \cup {CheckVersion(v, FALSE) : v \in VerVersions}
                 \cup {CheckVersion(<< "v", "1" >>, TRUE)}

VerInit ==
    /\ Init
    /\ config = Config(GoodRepo, GoodUrl, ShortInterval, NoneOpt)
    /\ disk = AbsentFile

VerNext ==
    \/ \E o \in VerOps : Call(1, o)
    \/ FetchAllCheck(1)
    \/ pc[1] = "fetch" /\ \E list \in VerLists : FetchOk(1, list)
    \/ Commit(1)

VerSpec == VerInit /\ [][VerNext]_vars

\* The concurrent specification: the callers share one notifier with a cache
\* file and a short interval, and their operations interleave at the lock
\* acquisitions and at the await of the remote fetch.  The source answers with
\* one of two non-empty lists.
ConcFeeds == {FeedOld, FeedTest}
ConcOps == {GetLatestRelease(FALSE), ClearCache}

ConcInit ==
    /\ Init
    /\ config = Config(GoodRepo, GoodUrl, ShortInterval, Some(CacheFile))
    /\ disk = AbsentFile

ConcStep(c) ==
    \/ \E o \in ConcOps : Call(c, o)
    \/ FetchAllCheck(c)
    \/ \E list \in ConcFeeds : FetchOk(c, list)
    \/ Commit(c)
    \/ SaveLock(c)
    \/ \E ok \in BOOLEAN : SaveWrite(c, ok)
    \/ ClearLock(c)
    \/ \E ok \in BOOLEAN : ClearRemove(c, ok)
    \/ Return(c)

ConcNext == \E c \in Callers : ConcStep(c)

ConcSpec == ConcInit /\ [][ConcNext]_vars

\* The configuration specification: the program constructs notifiers from
\* configurations that are right or wrong in each of their three validated
\* fields, and clears the cache of those it gets.  The repos are an owner or a
\* name out of the sets below joined by a slash to a name or an owner that is
\* valid, and four more strings.
Rep(ch, n) == [i \in 1 .. n |-> ch]
\* "e'" stands for a letter outside ASCII.
CfgOwners ==
    {<< >>, << "a" >>, << "-", "a" >>, << "a", "-" >>, << "a", "-", "b" >>,
     << "a", "_" >>, << "e'" >>,
     Rep("a", MAX_GITHUB_OWNER_LENGTH), Rep("a", MAX_GITHUB_OWNER_LENGTH + 1)}
CfgNames ==
    {<< >>, << "r" >>, << "-" >>, << "r", ".", "_", "-" >>, << "r", "!" >>,
     << "r", "/", "x" >>,
     Rep("r", MAX_GITHUB_REPO_LENGTH), Rep("r", MAX_GITHUB_REPO_LENGTH + 1)}
CfgRepos ==
    {o \o << "/", "r" >> : o \in CfgOwners}
    \cup {<< "a", "/" >> \o n : n \in CfgNames}
    \cup {<< >>, BadRepo, << "/" >>, << "-", "/", "r", "!" >>}
CfgPaths == {NoneOpt, Some(CacheFile), Some(OrphanFile),
             Some(<< "tmp", "cache.json" >>)}
CfgConfigs ==
    {Config(r, u, ShortInterval, p) :
        r \in CfgRepos, u \in {GoodUrl, BadUrl}, p \in CfgPaths}
CfgFiles == {AbsentFile, Encode([releases |-> FeedOld, last_fetch_time |-> 0])}

CfgInit == \E cfg \in CfgConfigs, file \in CfgFiles : Starts(cfg, file, TRUE)

CfgNext ==
    \/ \E cfg \in CfgConfigs : New(cfg, TRUE)
    \/ Call(1, ClearCache)
    \/ ClearLock(1)
    \/ ClearRemove(1, TRUE)
    \/ Return(1)

CfgSpec == CfgInit /\ [][CfgNext]_vars

\* The fair specification: the callers of the concurrent specification make
\* every kind of call, over and over; the source answers with a list or fails.
\* Every remote fetch returns and every disk operation ends (weak fairness of
\* the steps that wait for nothing but themselves), and a caller that finds the
\* lock free again and again gets it (strong fairness of the steps that take
\* the lock).
LiveStep(c) ==
    \/ \E o \in Ops : Call(c, o)
    \/ FetchAllCheck(c)
    \/ FetchOk(c, FeedOld)
    \/ FetchErr(c, "HttpError")
    \/ Commit(c)
    \/ SaveLock(c)
    \/ SaveWrite(c, TRUE)
    \/ ClearLock(c)
    \/ ClearRemove(c, TRUE)
    \/ Return(c)

LiveNext == \E c \in Callers : LiveStep(c)

FetchReturns(c) == FetchOk(c, FeedOld) \/ FetchErr(c, "HttpError")

LiveFairness ==
    \A c \in Callers :
        /\ WF_vars(FetchReturns(c))
        /\ WF_vars(SaveWrite(c, TRUE))
        /\ WF_vars(ClearRemove(c, TRUE))
        /\ SF_vars(FetchAllCheck(c))
        /\ SF_vars(Commit(c))
        /\ SF_vars(SaveLock(c))
        /\ SF_vars(ClearLock(c))

LiveSpec == ConcInit /\ [][LiveNext]_vars /\ LiveFairness

\* The specification of successful disk operations: the notifier has a cache
\* file that is absent or holds a list it decodes when it is constructed, the
\* interval is zero or short, the callers refresh and clear concurrently, the
\* source answers with one of two lists or fails, and every fs::write and
\* fs::remove_file succeeds.
OkFiles == {AbsentFile, Encode([releases |-> FeedOld, last_fetch_time |-> 0])}

OkInit ==
    \E interval \in {0, ShortInterval}, file \in OkFiles :
        Starts(Config(GoodRepo, GoodUrl, interval, Some(CacheFile)), file, TRUE)

OkStep(c) ==
    \/ \E o \in ConcOps : Call(c, o)
    \/ FetchAllCheck(c)
    \/ \E list \in ConcFeeds : FetchOk(c, list)
    \/ FetchErr(c, "HttpError")
    \/ Commit(c)
    \/ SaveLock(c)
    \/ SaveWrite(c, TRUE)
    \/ ClearLock(c)
    \/ ClearRemove(c, TRUE)
    \/ Return(c)

OkNext == \E c \in Callers : OkStep(c)

OkSpec == OkInit /\ [][OkNext]_vars

\* ------------------------------------------------------------------ steps
\* Caller c's fetch_all_releases makes its freshness decision in this step.
CheckStep(c) ==
    /\ pc[c] = "check"
    /\ pc'[c] # "check" \/ stage'[c] # stage[c]

\* The decision was to answer from the cache: the source is not asked.
ServedFromCache(c) == CheckStep(c) /\ pc'[c] # "fetch"

\* The remote fetch of caller c fails in this step.
FetchFails(c) == pc[c] = "fetch" /\ pc'[c] \notin {"fetch", "commit"}

\* Caller c's save_cache_to_disk ends in this step.
SaveEnds(c) == pc[c] = "write" /\ pc'[c] # "write"

\* Caller c's fetch_all_releases returns in this step.
FetchAllEnds(c) ==
    \/ ServedFromCache(c)
    \/ FetchFails(c)
    \/ pc[c] = "commit" /\ pc'[c] \notin {"commit", "save"}
    \/ SaveEnds(c)

\* The interval fits an i64, so that `check_interval as i64` is the interval.
FitsI64(i) == i < 2 ^ (IntBits - 1)

\* The snapshot s is within the interval ttl at time t.
Within(s, t, ttl) == IsSome(s.last_fetch_time) /\ t - s.last_fetch_time[1] < ttl

\* ------------------------------------------------------------------- C1
\* C1: with check_interval > 0, fetch_all_releases answers with the in-memory
\* list, without asking the source, if and only if the snapshot has a fetch
\* timestamp, is non-empty and now - last_fetch_time < check_interval; such a
\* hit changes neither the snapshot (list, timestamp) nor the file.
C1_HitIffFresh ==
    [][\A c \in Callers :
          CheckStep(c) /\ config.check_interval > 0 =>
              /\ (ServedFromCache(c) /\ got'[c] = OkGot(cache.releases))
                     <=> (Within(cache, now, config.check_interval)
                          /\ cache.releases # << >>)
              /\ ServedFromCache(c) => cache' = cache /\ disk' = disk]_vars

\* What does hold: the same with the interval read as an i64.
C1_HitIffFreshAsI64 ==
    [][\A c \in Callers :
          CheckStep(c) /\ config.check_interval > 0 =>
              /\ (ServedFromCache(c) /\ got'[c] = OkGot(cache.releases))
                     <=> (Within(cache, now, AsI64(config.check_interval))
                          /\ cache.releases # << >>)
              /\ ServedFromCache(c) => cache' = cache /\ disk' = disk]_vars

\* ------------------------------------------------------------------- C2
\* C2 as stated, for intervals that fit an i64: when the call before fetched
\* (whatever list) and this call comes within the interval of that fetch, this
\* call does not ask the source.
C2_SecondCallAnyList ==
    [][\A c \in Callers :
          /\ CheckStep(c)
          /\ config.check_interval > 0 /\ FitsI64(config.check_interval)
          /\ prev.kind = "fetched"
          /\ Within(prev.snap, now, config.check_interval)
          => ServedFromCache(c)]_vars

\* C2 amended: with 0 < check_interval < 2^63, when the call before fetched a
\* non-empty list and this call comes within the interval of that fetch, this
\* call is served from the cache with that list and asks the source zero times
\* (one fetch for the two calls); after a fetch of the empty list the second
\* call asks the source again.
C2_SecondCallServed ==
    [][\A c \in Callers :
          /\ CheckStep(c)
          /\ config.check_interval > 0 /\ FitsI64(config.check_interval)
          /\ prev.kind = "fetched"
          /\ Within(prev.snap, now, config.check_interval)
          => IF prev.snap.releases # << >>
             THEN /\ ServedFromCache(c)
                  /\ got'[c] = OkGot(prev.snap.releases)
                  /\ inv'[c].fetches = 0
             ELSE pc'[c] = "fetch"]_vars

\* A second call was served from the cache a first call had filled.
C2_Witness ==
    /\ pc[1] = "done" /\ inv[1].outcome = "hit" /\ inv[1].fetches = 0
    /\ prev.kind = "hit" /\ prev.was = "fetched"
    /\ got[1].list = FeedTest

\* ------------------------------------------------------------------- C3
\* C3: with check_interval = 0 every fetch_all_releases asks the source exactly
\* once, whatever the snapshot holds, and returns what the source answered; a
\* successful fetch replaces the in-memory snapshot.
C3_DisabledAlwaysFetches ==
    [][\A c \in Callers :
          config.check_interval = 0 =>
              /\ CheckStep(c) => pc'[c] = "fetch"
              /\ FetchAllEnds(c) =>
                    /\ inv'[c].fetches = 1
                    /\ got'[c].kind = "Ok" =>
                          /\ got'[c].list = fetched[c]
                          /\ cache'.releases = fetched[c]
                          /\ IsSome(cache'.last_fetch_time)]_vars

\* With caching disabled a call went to the source although the snapshot loaded
\* from disk was fresh, and replaced it.
C3_Witness ==
    /\ config.check_interval = 0
    /\ boot = "loaded" /\ prev.kind = "fetched" /\ now = 0
    /\ pc[1] = "done" /\ inv[1].fetches = 1
    /\ got[1] = OkGot(FeedTest) /\ cache.releases = FeedTest
    /\ disk.kind = "json" /\ disk.releases = FeedTest

C5_ColdAfterClear ==
    [][\A c \in Callers :
          CheckStep(c) /\ prev.kind = "cleared" => pc'[c] = "fetch"]_vars

\* A call after a clear goes to the source within the interval of the
\* destroyed, non-empty snapshot.
C5_Witness ==
    /\ pc[1] = "fetch" /\ prev.kind = "cleared"
    /\ prev.snap.releases # << >>
    /\ config.check_interval = ShortInterval
    /\ Within(prev.snap, now, config.check_interval)

\* ------------------------------------------------------------------- C6
\* C6 as stated: when clear_cache has returned, the in-memory snapshot is empty
\* with no timestamp and the configured file is gone.
C6_ClearRemovesFile ==
    \A c \in Callers :
        pc[c] = "done" /\ op[c].name = "clear_cache" =>
            /\ cache = EmptyCache
            /\ config.cache_file_path # NoneOpt => disk.kind = "absent"

\* C6 amended: clear_cache empties the in-memory snapshot (no list, no
\* timestamp) and tries to remove the configured file: the file is gone
\* afterwards unless removing an existing file failed, and then it is left as it
\* was; without a configured file the disk is not touched.  Called when the
\* snapshot is already empty and the file already gone it changes nothing, and
\* it always returns without an error.
C6_ClearBestEffort ==
    [][\A c \in Callers :
          /\ pc[c] = "clear" /\ pc'[c] # "clear" =>
                /\ cache' = EmptyCache
                /\ disk' = disk
          /\ pc[c] = "remove" /\ pc'[c] # "remove" =>
                /\ cache = EmptyCache /\ cache' = cache
                /\ pc'[c] = "done" /\ ret'[c].kind = "Ok"
                /\ config.cache_file_path = NoneOpt => disk' = disk
                /\ config.cache_file_path # NoneOpt =>
                      IF inv'[c].io = "failed" THEN disk' = disk
                      ELSE disk'.kind = "absent"
                /\ disk.kind = "absent" => disk' = disk]_vars

\* A clear_cache removed the file of a filled cache.
C6_Witness ==
    /\ pc[1] = "done" /\ op[1].name = "clear_cache" /\ inv[1].io = "ok"
    /\ prev.kind = "cleared" /\ prev.snap.releases = FeedTest
    /\ cache = EmptyCache /\ disk.kind = "absent"

\* ------------------------------------------------------------------- C7
\* C7 as stated, for intervals that fit an i64: when the notifier that was
\* dropped had a cache file and its last call fetched successfully, the first
\* call on a notifier with a cache file, made within the interval of that
\* fetch, is answered from the loaded snapshot with the list that was fetched.
C7_RestartServedAlways ==
    [][\A c \in Callers :
          /\ CheckStep(c)
          /\ prev.kind = "new" /\ prev.from = "fetched" /\ prev.hadPath
          /\ config.cache_file_path # NoneOpt
          /\ config.check_interval > 0 /\ FitsI64(config.check_interval)
          /\ Within(prev.snap, now, config.check_interval)
          => /\ ServedFromCache(c)
             /\ got'[c] = OkGot(prev.snap.releases)]_vars

\* C7 amended: with 0 < check_interval < 2^63, when the dropped notifier's last
\* call fetched a non-empty list and wrote it to the cache file, and the new
\* notifier reads that file, its first call within the interval of the persisted
\* fetch timestamp is answered from the loaded snapshot, with the same list and
\* without asking the source.
C7_RestartServed ==
    [][\A c \in Callers :
          /\ CheckStep(c)
          /\ prev.kind = "new" /\ prev.from = "fetched" /\ prev.hadPath
          /\ config.cache_file_path # NoneOpt
          /\ config.check_interval > 0 /\ FitsI64(config.check_interval)
          /\ Within(prev.snap, now, config.check_interval)
          /\ prev.saved /\ boot = "loaded"
          /\ prev.snap.releases # << >>
          => /\ ServedFromCache(c)
             /\ got'[c] = OkGot(prev.snap.releases)
             /\ inv'[c].fetches = 0
             /\ disk.last_fetch_time = prev.snap.last_fetch_time[1]]_vars

\* The first call on a second notifier was answered from the file the first
\* notifier wrote.
C7_Witness ==
    /\ pc[1] = "done" /\ inv[1].outcome = "hit" /\ inv[1].fetches = 0
    /\ prev.kind = "hit" /\ prev.was = "new" /\ prev.from = "fetched"
    /\ prev.saved /\ boot = "loaded"
    /\ got[1] = OkGot(FeedTest) /\ prev.snap.releases = FeedTest

\* ------------------------------------------------------------------- C8
BadLoads == {"absent", "unreadable", "undecodable"}

\* The configuration is valid but for what the cache file holds.
OtherwiseValid(cfg) ==
    /\ is_valid_repo_format(cfg.repo)
    /\ UrlParses(cfg.base_url)
    /\ cfg.cache_file_path # NoneOpt /\ ~ParentMissing(cfg.cache_file_path[1])

\* C8: when the configured cache file is absent, unreadable or does not decode
\* and the configuration is otherwise valid, new() succeeds with an empty
\* snapshot (no releases, no timestamp), and the first call asks the source.
C8_BadFileColdStart ==
    /\ [](/\ OtherwiseValid(config)
          /\ boot \in BadLoads
          /\ prev.kind = "new"
          /\ \A c \in Callers : pc[c] \in {"idle", "check", "clear"}
          => created.kind = "Ok" /\ cache = EmptyCache)
    /\ [][\A c \in Callers :
             CheckStep(c) /\ prev.kind = "new" /\ boot \in BadLoads
             => pc'[c] = "fetch"]_vars

\* A call on a notifier that found a file that does not decode goes to the
\* source.
C8_Witness ==
    /\ created.kind = "Ok" /\ boot = "undecodable" /\ disk = GarbageFile
    /\ prev.kind = "new" /\ prev.from = "fetched"
    /\ config.check_interval = ShortInterval
    /\ cache = EmptyCache /\ pc[1] = "fetch"

\* ------------------------------------------------------------------- C9
\* C9: when writing the cache file fails after a successful fetch,
\* fetch_all_releases still returns the fetched list, no error reaches the
\* caller, and the in-memory snapshot holds that list with the timestamp of
\* its commit.
C9_SaveFailureSwallowed ==
    [][\A c \in Callers :
          SaveEnds(c) /\ inv'[c].io = "failed" =>
              /\ got'[c] = OkGot(fetched[c])
              /\ ret'[c].kind # "Err"
              /\ pc'[c] = "done" => ret'[c].kind = "Ok"
              /\ cache' = Committed(fetched[c], inv[c].commit_time)]_vars

\* A get_latest_release returned the latest of a list whose save failed.
C9_Witness ==
    /\ pc[1] = "done" /\ inv[1].io = "failed" /\ inv[1].outcome = "fetched"
    /\ op[1].name = "get_latest_release"
    /\ ret[1].kind = "Ok" /\ ret[1].release = Some(FeedTest[1])
    /\ cache.releases = FeedTest /\ disk.kind # "json"

\* ------------------------------------------------------------------ C10
\* The publish timestamps of the list are pairwise distinct.
DistinctStamps(list) ==
    \A i, j \in 1 .. Len(list) :
        i # j => list[i].published_at # list[j].published_at

\* The positions of the candidates of get_latest_release.
Candidates(list, include_prerelease) ==
    {i \in 1 .. Len(list) :
        ~list[i].draft /\ (include_prerelease \/ ~list[i].prerelease)}

\* C10: for a fetched list with distinct publish timestamps,
\* get_latest_release(include_prerelease) returns the candidate (not a draft,
\* and not a prerelease unless include_prerelease) with the greatest
\* published_at, and None exactly when there is no candidate.
C10_LatestIsGreatestCandidate ==
    \A c \in Callers :
        /\ pc[c] = "done" /\ op[c].name = "get_latest_release"
        /\ ret[c].kind = "Ok" /\ DistinctStamps(got[c].list)
        => LET list == got[c].list
               cands == Candidates(list, op[c].include_prerelease)
           IN  /\ ret[c].release = NoneOpt <=> cands = {}
               /\ cands # {} =>
                     \E i \in cands :
                         /\ ret[c].release = Some(list[i])
                         /\ \A j \in cands :
                               OptLeq(list[j].published_at, list[i].published_at)

\* get_latest_release(false) returned a stable release that is neither the
\* first nor the last of the list, passing over a later draft and a later
\* prerelease.
C10_Witness ==
    /\ pc[1] = "done" /\ op[1] = GetLatestRelease(FALSE)
    /\ Len(got[1].list) = 3 /\ DistinctStamps(got[1].list)
    /\ ret[1].release = Some(got[1].list[2])
    /\ got[1].list[1].draft /\ got[1].list[3].prerelease
    /\ got[1].list[2].published_at = Some(1)

\* ------------------------------------------------------------------ C11
\* C11: no selection operation (get_latest_release with either flag,
\* get_latest_prerelease, check_version's latest_release and the `latest` it
\* compares with) ever yields a draft, even when a draft has the most recent
\* publish timestamp of the list.
C11_NeverADraft ==
    \A c \in Callers :
        /\ ret[c].kind = "Ok" /\ IsSome(ret[c].release) => ~ret[c].release[1].draft
        /\ op[c].name = "check_version" /\ stage[c] = 2 => ~latest[c].draft

\* check_version returned the older stable release although the list's most
\* recent entry is a draft.
C11_Witness ==
    /\ pc[1] = "done" /\ op[1].name = "check_version" /\ ~op[1].is_prerelease
    /\ Len(got[1].list) = 2
    /\ got[1].list[1].draft /\ got[1].list[1].published_at = Some(2)
    /\ ~got[1].list[1].prerelease
    /\ ret[1].release = Some(got[1].list[2])
    /\ got[1].list[2].published_at = Some(1)

\* ------------------------------------------------------------------ C12
\* The positions of the non-draft prereleases.
PrereleaseCandidates(list) ==
    {i \in 1 .. Len(list) : list[i].prerelease /\ ~list[i].draft}

\* C12: get_latest_prerelease returns a non-draft prerelease of the list whose
\* published_at no other non-draft prerelease exceeds, and None exactly when the
\* list has no non-draft prerelease, whatever stable releases it has.
C12_LatestPrerelease ==
    \A c \in Callers :
        /\ pc[c] = "done" /\ op[c].name = "get_latest_prerelease"
        /\ ret[c].kind = "Ok"
        => LET list == got[c].list
               cands == PrereleaseCandidates(list)
           IN  /\ ret[c].release = NoneOpt <=> cands = {}
               /\ cands # {} =>
                     \E i \in cands :
                         /\ ret[c].release = Some(list[i])
                         /\ \A j \in cands :
                               OptLeq(list[j].published_at, list[i].published_at)

\* get_latest_prerelease returned None for a list with a stable release and a
\* draft prerelease.
C12_Witness ==
    /\ pc[1] = "done" /\ op[1] = GetLatestPrerelease
    /\ ret[1] = OkRet(NoneOpt, FALSE)
    /\ Len(got[1].list) = 2
    /\ ~got[1].list[1].draft /\ ~got[1].list[1].prerelease
    /\ got[1].list[2].draft /\ got[1].list[2].prerelease

\* get_latest_prerelease returned the later of two prereleases, passing over a
\* stable release that is later still.
C12_WitnessLatest ==
    /\ pc[1] = "done" /\ op[1] = GetLatestPrerelease
    /\ Len(got[1].list) = 3
    /\ ret[1].release = Some(got[1].list[1])
    /\ got[1].list[1].published_at = Some(1)
    /\ PrereleaseCandidates(got[1].list) = {1, 3}
    /\ got[1].list[3].published_at = NoneOpt
    /\ got[1].list[2].published_at = Some(2)

\* ------------------------------------------------------- version lookup
\* Caller c's check_version has returned after its version comparison.
Compared(c) ==
    /\ pc[c] = "done" /\ op[c].name = "check_version"
    /\ ret[c].kind = "Ok" /\ stage[c] = 2

\* A string without its leading v, when it has one.
WithoutLeadingV(s) == IF s # << >> /\ Head(s) = "v" THEN SubSeq(s, 2, Len(s)) ELSE s

\* The positions of the releases whose tag equals the version, leading v aside.
Matches(version, list) ==
    {i \in 1 .. Len(list) :
        WithoutLeadingV(list[i].tag_name) = WithoutLeadingV(version)}

\* ------------------------------------------------------------------ C13
\* C13: for a current version whose normalized tag matches no release of the
\* list, is_version_older is false whatever the latest release is, and
\* check_version reports update_available = false.
C13_UnknownIsNotOlder ==
    \A c \in Callers :
        Compared(c) /\ Matches(op[c].current_version, got[c].list) = {} =>
            /\ ~ret[c].update_available
            /\ \A l \in VerReleases :
                  ~is_version_older(op[c].current_version, l, got[c].list)

\* check_version was asked about a version that is no release while the list
\* holds an earlier and a later release: no update is reported.
C13_Witness ==
    /\ Compared(1) /\ op[1].current_version = << "v", "v", "1" >>
    /\ Len(got[1].list) = 2
    /\ got[1].list[1].published_at = Some(1)
    /\ ret[1] = OkRet(Some(got[1].list[2]), FALSE)
    /\ got[1].list[2].published_at = Some(2)

\* ------------------------------------------------------------------ C14
\* C14: when the current version is found in the list (the first release whose
\* normalized tag equals it), update_available is true if and only if the found
\* release and the latest release both have a publish timestamp and the found
\* one's is strictly earlier; a missing timestamp or equal timestamps give false.
C14_OlderIffStrictlyEarlier ==
    \A c \in Callers :
        Compared(c) /\ Matches(op[c].current_version, got[c].list) # {} =>
            LET list == got[c].list
                hits == Matches(op[c].current_version, list)
                i == CHOOSE k \in hits : \A j \in hits : k <= j
                late == ret[c].release[1]
            IN  ret[c].update_available <=>
                    /\ list[i].published_at # NoneOpt
                    /\ late.published_at # NoneOpt
                    /\ list[i].published_at[1] < late.published_at[1]

\* An update was reported for a version found with an earlier publish date than
\* the latest release.
C14_Witness ==
    /\ Compared(1) /\ ret[1].update_available
    /\ op[1].current_version = << "v", "1" >>
    /\ got[1].list[1].tag_name = << "v", "1" >>
    /\ got[1].list[1].published_at = Some(1)
    /\ ret[1].release = Some(got[1].list[2])
    /\ got[1].list[2].published_at = Some(2)

\* ------------------------------------------------------------------ C15
\* The normalization as the claim has it: one leading v or V is stripped.
NormalizeTag(s) ==
    IF s # << >> /\ Head(s) \in {"v", "V"} THEN SubSeq(s, 2, Len(s)) ELSE s

\* C15 as stated: the version lookup finds a release exactly when the version
\* and a tag are equal after at most one leading v or V is stripped from each.
C15_FindsUpToVOrCapitalV ==
    \A c \in Callers :
        Compared(c) =>
            (find_release_by_version(op[c].current_version, got[c].list) # NoneOpt
             <=> \E i \in 1 .. Len(got[c].list) :
                    NormalizeTag(got[c].list[i].tag_name)
                        = NormalizeTag(op[c].current_version))

\* C15 amended: the normalization strips at most one leading lower-case v and
\* leaves every other string unchanged (a capital V is kept, and so is a second
\* v); the lookup finds the first release whose tag equals the version after
\* that, and none when there is no such release.
C15_FindsUpToLowerV ==
    \A c \in Callers :
        Compared(c) =>
            LET list == got[c].list
                hits == Matches(op[c].current_version, list)
                found == find_release_by_version(op[c].current_version, list)
            IN  /\ found = NoneOpt <=> hits = {}
                /\ hits # {} =>
                      found = Some(list[CHOOSE k \in hits : \A j \in hits : k <= j])

\* The version 1 found the release tagged v1, the second of the list, passing
\* over the latest release, which is tagged V1.
C15_Witness ==
    /\ Compared(1) /\ op[1].current_version = << "1" >>
    /\ Len(got[1].list) = 2
    /\ got[1].list[1].tag_name = << "V", "1" >>
    /\ got[1].list[2].tag_name = << "v", "1" >>
    /\ got[1].list[2].published_at = NoneOpt
    /\ ~got[1].list[2].draft /\ got[1].list[2].prerelease
    /\ find_release_by_version(op[1].current_version, got[1].list)
           = Some(got[1].list[2])
    /\ ~ret[1].update_available

\* ------------------------------------------------------------------ C16
\* The positions of the releases of a channel: the non-draft prereleases, or
\* the non-draft stable releases.
ChannelCandidates(list, is_prerelease) ==
    {i \in 1 .. Len(list) :
        ~list[i].draft /\ (list[i].prerelease <=> is_prerelease)}

\* C16: when the first fetch_all_releases of check_version returns a list
\* without a release of the selected channel, check_version returns
\* {update_available: false, latest_release: None} in that step, without the
\* version comparison and without a second fetch_all_releases.
C16_NoLatestReturnsAtOnce ==
    /\ [][\A c \in Callers :
             /\ op[c].name = "check_version" /\ stage[c] = 1
             /\ FetchAllEnds(c) /\ got'[c].kind = "Ok"
             /\ ChannelCandidates(got'[c].list, op[c].is_prerelease) = {}
             => /\ pc'[c] = "done" /\ stage'[c] = 1
                /\ ret'[c] = OkRet(NoneOpt, FALSE)]_vars
    /\ [](\A c \in Callers :
             pc[c] = "done" /\ op[c].name = "check_version" /\ stage[c] = 2
             => /\ ret[c].release # NoneOpt
                /\ ChannelCandidates(got[c].list, op[c].is_prerelease) # {})

\* check_version on the prerelease channel returned no latest release for a
\* list with a stable release and a draft prerelease.
C16_Witness ==
    /\ pc[1] = "done" /\ op[1].name = "check_version" /\ op[1].is_prerelease
    /\ stage[1] = 1 /\ ret[1] = OkRet(NoneOpt, FALSE)
    /\ inv[1].fetches = 1
    /\ Len(got[1].list) = 2
    /\ ~got[1].list[1].draft /\ ~got[1].list[1].prerelease
    /\ got[1].list[2].draft /\ got[1].list[2].prerelease

\* ------------------------------------------------------------------ C17
\* C17: when the current version's normalized tag equals the normalized tag of
\* the release check_version returns as latest_release, update_available is
\* false.
C17_NoUpdateOnLatest ==
    \A c \in Callers :
        /\ Compared(c)
        /\ WithoutLeadingV(op[c].current_version)
               = WithoutLeadingV(ret[c].release[1].tag_name)
        => ~ret[c].update_available

\* ------------------------------------------------------------------ C18
\* C18: no caller holds the snapshot lock while its remote fetch is in
\* progress, or while it waits to commit the result: the lock is held only
\* inside save_cache_to_disk and clear_cache, so that whenever no caller is in
\* one of the two the lock is free for a reader or a clear_cache, however long
\* a fetch takes.
C18_NoLockAcrossFetch ==
    /\ \A c \in Callers : pc[c] \in {"fetch", "commit"} => lock # c
    /\ lock # 0 => pc[lock] \in {"write", "remove"}

\* While caller 1's remote fetch is in progress caller 2's clear_cache holds the
\* lock: it took it after the fetch had begun.
C18_Witness ==
    /\ pc[1] = "fetch" /\ op[1].name = "get_latest_release"
    /\ pc[2] = "remove" /\ lock = 2

\* ------------------------------------------------------------------ C19
\* C19: there is no single-flight deduplication.  Every caller that missed
\* asks the source itself and returns its own list; every commit replaces the
\* in-memory snapshot with the committing caller's list, whatever another
\* caller committed meanwhile; and the snapshot is written by nothing but a
\* commit or a clear_cache.  So the snapshot holds the list of the caller whose
\* commit was the last write.
C19_LastWriterWins ==
    /\ [](\A c \in Callers :
             /\ inv[c].last =>
                   cache = Committed(fetched[c], inv[c].commit_time)
             /\ pc[c] = "done" /\ inv[c].outcome = "fetched" =>
                   inv[c].fetches = 1 /\ got[c] = OkGot(fetched[c])
             /\ \A d \in Callers : inv[c].last /\ inv[d].last => c = d)
    /\ [][\A c \in Callers :
             /\ pc[c] = "commit" /\ pc'[c] # "commit" =>
                   inv'[c].last /\ cache' = Committed(fetched[c], now)
             /\ inv'[c].last /\ ~inv[c].last => pc[c] = "commit"]_vars

\* Both callers missed, both asked the source and both committed; caller 2,
\* which committed first, finished last, and the snapshot holds the list of
\* caller 1, whose commit was the last.
C19_Witness ==
    /\ pc[1] = "done" /\ pc[2] = "done"
    /\ inv[1].outcome = "fetched" /\ inv[2].outcome = "fetched"
    /\ inv[1].fetches = 1 /\ inv[2].fetches = 1
    /\ got[1] = OkGot(FeedOld) /\ got[2] = OkGot(FeedTest)
    /\ inv[1].last /\ ~inv[2].last
    /\ cache.releases = FeedOld
    /\ prev.kind = "fetched" /\ prev.snap.releases = FeedTest

IsOwnerSlashName(repo) ==
    \E k \in 1 .. Len(repo) :
        /\ repo[k] = "/"
        /\ \A j \in 1 .. Len(repo) : repo[j] = "/" => j = k
        /\ k - 1 \in 1 .. 39
        /\ repo[1] # "-" /\ repo[k - 1] # "-"
        /\ \A j \in 1 .. k - 1 : repo[j] \in AsciiAlphanumeric \cup {"-"}
        /\ Len(repo) - k \in 1 .. 100
        /\ \A j \in k + 1 .. Len(repo) :
              repo[j] \in AsciiAlphanumeric \cup {"-", "_", "."}

\* The cache path names a directory that does not exist.
NoParentDirectory(p) ==
    /\ p # NoneOpt
    /\ Len(p[1]) > 1
    /\ SubSeq(p[1], 1, Len(p[1]) - 1) \notin ExistingDirs

\* C21: new() reports the first of InvalidRepo (the repo is not owner/name),
\* InvalidBaseUrl (the base URL does not parse) and InvalidCacheFilePath (the
\* cache path's non-empty parent directory does not exist) that applies, with
\* the rejected value, and succeeds otherwise; on an error there is no notifier
\* (no call can be made on it), no snapshot, and the cache file was not read.
C21_ConfigErrors ==
    /\ created =
          IF ~IsOwnerSlashName(config.repo)
          THEN [kind |-> "Err", err |-> "InvalidRepo", value |-> config.repo]
          ELSE IF config.base_url # GoodUrl
          THEN [kind |-> "Err", err |-> "InvalidBaseUrl",
                value |-> << config.base_url >>]
          ELSE IF NoParentDirectory(config.cache_file_path)
          THEN [kind |-> "Err", err |-> "InvalidCacheFilePath",
                value |-> config.cache_file_path[1]]
          ELSE [kind |-> "Ok", err |-> "", value |-> << >>]
    /\ created.kind = "Err" =>
          /\ cache = EmptyCache /\ boot = "unread"
          /\ \A c \in Callers : pc[c] = "idle"
    /\ created.kind = "Ok" /\ config.cache_file_path # NoneOpt => boot # "unread"

\* A configuration wrong in all three fields is rejected for its repo, whose
\* owner has 40 characters, and the cache file that exists is not read; the
\* notifier before it was constructed with a cache file.
C21_Witness ==
    /\ created.kind = "Err" /\ created.err = "InvalidRepo"
    /\ created.value = Rep("a", 40) \o << "/", "r" >>
    /\ config.base_url = BadUrl /\ config.cache_file_path = Some(OrphanFile)
    /\ disk.kind = "json" /\ boot = "unread" /\ cache = EmptyCache
    /\ prev.kind = "new" /\ prev.hadPath

\* ------------------------------------------------------------------ C22
\* C22: the lock is not held while the save step writes the cache file or
\* clear_cache removes it.
C22_NoLockDuringDiskIO ==
    \A c \in Callers : pc[c] \in {"write", "remove"} => lock # c

\* ------------------------------------------------------------------ C23
\* C23: once clear_cache has returned with the file absent, the file stays
\* absent for as long as no fetch is committed: no step creates the file while
\* the in-memory snapshot is the one the clear left.
C23_ClearedFileStaysAbsent ==
    [][/\ prev.kind = "cleared" /\ \A c \in Callers : pc[c] # "remove"
       /\ disk.kind = "absent"
       /\ cache = EmptyCache
       => disk'.kind = "absent"]_vars

\* ------------------------------------------------------------------ C24
\* C24: the commit step of a successful refresh leaves in memory exactly the
\* list just fetched, entry by entry in the order received, whatever the
\* snapshot held before, with the time of the commit as the fetch timestamp.
C24_CommitReplaces ==
    [][\A c \in Callers :
          pc[c] = "commit" /\ pc'[c] # "commit" =>
              /\ Len(cache'.releases) = Len(fetched[c])
              /\ \A i \in 1 .. Len(fetched[c]) : cache'.releases[i] = fetched[c][i]
              /\ cache'.last_fetch_time = Some(now)]_vars

\* A commit at time 1 has replaced the four unsorted releases loaded from the
\* file (fetched at time 0, and still in the file) by the single release just
\* fetched.
C24_Witness ==
    /\ pc[1] = "save" /\ fetched[1] = FeedOld
    /\ cache = [releases |-> FeedOld, last_fetch_time |-> Some(1)]
    /\ now = 1 /\ boot = "loaded"
    /\ disk = Encode([releases |-> FeedTest, last_fetch_time |-> 0])

\* ------------------------------------------------------------------ C25
\* The positions of the candidates of the selection operation o makes.
OpCandidates(o, list) ==
    IF o.name = "get_latest_release" THEN Candidates(list, o.include_prerelease)
    ELSE IF o.name = "get_latest_prerelease" THEN PrereleaseCandidates(list)
    ELSE ChannelCandidates(list, o.is_prerelease)

\* No candidate of the selection has a publish timestamp.
NoneStamped(o, list) ==
    \A i \in OpCandidates(o, list) : list[i].published_at = NoneOpt

\* C25: a release without a publish timestamp is the result of a selection
\* (get_latest_release, get_latest_prerelease, the latest of check_version)
\* only when no candidate of that selection has a timestamp.
C25_NoneSortsLowest ==
    \A c \in Callers :
        /\ /\ pc[c] = "done" /\ ret[c].kind = "Ok" /\ IsSome(ret[c].release)
           /\ op[c].name \in {"get_latest_release", "get_latest_prerelease"}
           /\ ret[c].release[1].published_at = NoneOpt
           => NoneStamped(op[c], got[c].list)
        /\ /\ op[c].name = "check_version" /\ stage[c] = 2
           /\ latest[c].published_at = NoneOpt
           => NoneStamped(op[c], got[c].list)

\* get_latest_release(true) returned the first release, which has a timestamp,
\* although the release after it, a candidate too, has none.
C25_Witness ==
    /\ pc[1] = "done" /\ op[1] = GetLatestRelease(TRUE)
    /\ Len(got[1].list) = 2
    /\ OpCandidates(op[1], got[1].list) = {1, 2}
    /\ got[1].list[1].published_at = Some(1)
    /\ got[1].list[2].published_at = NoneOpt
    /\ ret[1].release = Some(got[1].list[1])

\* check_version took a release without a timestamp for the latest: the only
\* stable release of the list, whose draft has a timestamp.
C25_WitnessNone ==
    /\ op[1].name = "check_version" /\ stage[1] = 2 /\ pc[1] = "done"
    /\ ret[1].release # NoneOpt /\ ret[1].release[1].published_at = NoneOpt
    /\ Len(got[1].list) = 2
    /\ got[1].list[1].draft /\ got[1].list[1].published_at = Some(2)

\* ------------------------------------------------------------------ C26
\* C26: no caller is at a step that takes the lock while it holds the lock, a
\* caller that is not inside save_cache_to_disk or clear_cache does not hold
\* it, and every call that was made returns.
C26_EveryCallReturns ==
    /\ [](\A c \in Callers :
             /\ lock = c => pc[c] \notin {"check", "commit", "save", "clear"}
             /\ pc[c] \in {"idle", "done"} => lock # c)
    /\ \A c \in Callers : (pc[c] # "idle") ~> (pc[c] = "done")

\* Caller 1 has committed and waits for the lock to save, while caller 2 holds
\* it inside clear_cache.
C26_Witness ==
    /\ pc[1] = "save" /\ op[1].name = "check_version"
    /\ pc[2] = "remove" /\ lock = 2

\* ------------------------------------------------------------------ C27
\* C27: the release check_version returns as latest_release after its version
\* comparison is a member of the list in which it looked the current version
\* up, and when update_available is true that list also holds a release
\* matching the current version that was published strictly earlier.
C27_OneConsistentList ==
    \A c \in Callers :
        Compared(c) =>
            /\ \E i \in 1 .. Len(got[c].list) : got[c].list[i] = ret[c].release[1]
            /\ ret[c].update_available =>
                   \E i \in Matches(op[c].current_version, got[c].list) :
                       /\ got[c].list[i].published_at # NoneOpt
                       /\ ret[c].release[1].published_at # NoneOpt
                       /\ got[c].list[i].published_at[1]
                              < ret[c].release[1].published_at[1]

\* ------------------------------------------------------------------ C28
Quiescent == \A c \in Callers : pc[c] \in {"idle", "done"}

\* C28: when every disk operation succeeds and no operation is in progress,
\* the cache file is absent and the snapshot holds no release, or the file
\* decodes to the releases of the snapshot.
C28_DiskAgreesAtRest ==
    Quiescent =>
        \/ disk.kind = "absent" /\ cache.releases = << >>
        \/ /\ load_cache_from_disk(disk, TRUE) # NoneOpt
           /\ load_cache_from_disk(disk, TRUE)[1].releases = cache.releases

\* Two refreshes that fetched different lists have both returned, and the file
\* holds the list of the snapshot.
C28_Witness ==
    /\ \A c \in Callers : pc[c] = "done" /\ op[c].name = "get_latest_release"
    /\ inv[1].outcome = "fetched" /\ inv[2].outcome = "fetched"
    /\ got[1] # got[2]
    /\ disk.kind = "json" /\ disk.releases = cache.releases
    /\ cache.releases # << >>

\* A refresh that lost the race with a clear_cache has returned: the file is
\* back and holds no release, like the snapshot.
C28_WitnessCleared ==
    /\ Quiescent
    /\ \E c \in Callers : inv[c].outcome = "fetched" /\ pc[c] = "done"
    /\ disk.kind = "json" /\ disk.releases = << >> /\ cache.releases = << >>

====
